---- MODULE Spec2Model ----
(***************************************************************************)
(* A model of action.py, "a command-line parser you won't hate".           *)
(*                                                                         *)
(* Python strings are sequences of one-character strings, so that          *)
(* indexing, slicing, startswith and split are computed, not assumed.      *)
(* Python's None is the one-element sequence <<"None">>: its element is    *)
(* not a single character, so it equals no string.  Values bound to        *)
(* options and arguments are tagged records: [str |-> s], [int |-> n],     *)
(* [bool |-> b].                                                           *)
(***************************************************************************)
EXTENDS Integers, Sequences, FiniteSets, TLC

VARIABLES
    actions,         \* self.actions: <<[name, action]>> in registration order
    default_action,  \* self.default_action, NoAction when None
    argv,            \* the list object handed to execute (execute mutates it)
    argv0,           \* the tokens the caller put into that list
    pc,              \* position inside execute
    action,          \* the action execute selected
    parsed,          \* what _parse_options returned
    bound,           \* what _parse_arguments returned
    outcome          \* how execute ended: the error raised or the call made

vars == <<actions, default_action, argv, argv0, pc, action, parsed, bound, outcome>>

-----------------------------------------------------------------------------
(* Bounds of the model.                                                    *)

MaxArgs == 3

-----------------------------------------------------------------------------
(* Strings and values.                                                     *)

None == <<"None">>

StrV(s) == [str |-> s]
IntV(n) == [int |-> n]
TrueV == [bool |-> TRUE]
NoneV == [none |-> TRUE]

Digits == {"0", "1", "2", "3", "4", "5", "6", "7", "8", "9"}

DigitVal(c) ==
    CASE c = "0" -> 0 [] c = "1" -> 1 [] c = "2" -> 2 [] c = "3" -> 3
      [] c = "4" -> 4 [] c = "5" -> 5 [] c = "6" -> 6 [] c = "7" -> 7
      [] c = "8" -> 8 [] c = "9" -> 9

RECURSIVE DecimalVal(_)
DecimalVal(s) ==
    IF s = <<>> THEN 0
    ELSE 10 * DecimalVal(SubSeq(s, 1, Len(s) - 1)) + DigitVal(s[Len(s)])

AllDigits(s) == s # <<>> /\ \A i \in 1..Len(s) : s[i] \in Digits

\* s[n:] of Python, n counted from zero
From(s, n) == SubSeq(s, n + 1, Len(s))

\* int(s) for a string s: an optional sign, then decimal digits.
\* (Surrounding whitespace and underscores between digits, which int()
\* also accepts, are outside the alphabet of the tokens modelled.)
int_str(s) ==
    IF AllDigits(s) THEN [ok |-> TRUE, val |-> IntV(DecimalVal(s))]
    ELSE IF Len(s) > 1 /\ s[1] = "-" /\ AllDigits(From(s, 1))
         THEN [ok |-> TRUE, val |-> IntV(0 - DecimalVal(From(s, 1)))]
    ELSE IF Len(s) > 1 /\ s[1] = "+" /\ AllDigits(From(s, 1))
         THEN [ok |-> TRUE, val |-> IntV(DecimalVal(From(s, 1)))]
    ELSE [ok |-> FALSE, val |-> NoneV]

\* type.__call__(raw) for a raw string taken from the command line
TypeCall(type, raw) ==
    CASE type = "str" -> [ok |-> TRUE, val |-> StrV(raw)]
      [] type = "int" -> int_str(raw)

\* type.__call__(val) for a value the same mapper returned: str of a str
\* and int of an int give the value back
TypeAgain(type, val) == [ok |-> TRUE, val |-> val]

\* s.replace(a, b) for single characters a, b
replace(s, a, b) == [i \in 1..Len(s) |-> IF s[i] = a THEN b ELSE s[i]]

\* len(s) > len('--') and s.startswith('--')
_is_long_option(s) == Len(s) > 2 /\ s[1] = "-" /\ s[2] = "-"

\* len(s) > len('-') and s.startswith('-')
_is_option(s) == Len(s) > 1 /\ s[1] = "-"

\* s[:n] of Python
Upto(s, n) == SubSeq(s, 1, n)

\* bool(s) for s a string or None
Truthy(s) == s # None /\ s # <<>>

-----------------------------------------------------------------------------
(* Option, Flag, Count, Key.                                               *)

\* Option.__init__(short, long, type=type) of class cls.  The names given
\* are strings or None, so the isinstance test of lines 25-29 passes.
\* `type` is "None", "str" or "int".
Option__init__(cls, short, long, type) ==
    LET swap == ~Truthy(long) /\ Truthy(short) /\ Len(short) > 1
        long1 == IF swap THEN short ELSE long
        short1 == IF swap THEN None ELSE short
    IN  IF Truthy(short1) /\ Len(short1) # 1
        THEN [ok |-> FALSE, err |-> "TypeError",
              opt |-> [cls |-> cls, short |-> None, long |-> None, type |-> "None"]]
        ELSE [ok |-> TRUE, err |-> "ok",
              opt |-> [cls |-> cls, short |-> short1, long |-> long1, type |-> type]]

\* a Count that forgets what it has counted
CountMutAlwaysOne(old) == IntV(1)

\* Count.__call__: (old if old else 0) + 1
Count__call__(old) ==
    IntV((IF old # NoneV /\ old # IntV(0) THEN old.int ELSE 0) + 1)

\* Key.__call__: at most once, then the mapper once more
Key__call__(mapper, old, new) ==
    IF old # NoneV
    THEN [err |-> "DuplicateKey", val |-> NoneV]
    ELSE IF mapper.type = "None"
    THEN [err |-> "TypeError", val |-> NoneV]
    ELSE [err |-> "ok", val |-> TypeAgain(mapper.type, new).val]

\* mapper.__call__(old, new), by the class of the mapper
Option__call__(mapper, old, new) ==
    CASE mapper.cls = "Flag" -> [err |-> "ok", val |-> TrueV]
      [] mapper.cls = "Count" -> [err |-> "ok", val |-> Count__call__(old)]
      [] mapper.cls = "Key" -> Key__call__(mapper, old, new)
      [] mapper.cls = "Option" -> [err |-> "NotImplementedError", val |-> NoneV]

-----------------------------------------------------------------------------
(* The option matcher.                                                     *)
(*                                                                         *)
(* action.options is a sequence of [name, mapper] in the dict's iteration  *)
(* order.  The dict `opts` is a function from names to values.  While      *)
(* scanning, st = [opts, unconsumed, calls]; calls is the record of every  *)
(* mapper.__call__ made: the index of the token being consumed, the        *)
(* option's name, the raw string handed over and where it came from.       *)

Get(opts, name) == IF name \in DOMAIN opts THEN opts[name] ELSE NoneV

Put(opts, name, val) ==
    [n \in DOMAIN opts \cup {name} |-> IF n = name THEN val ELSE opts[n]]

NoError == [kind |-> "ok", at |-> 0]

\* the first (name, mapper) of action.options whose mapper.short == key;
\* 0 stands for the loop's else branch
ShortIndex(options, key) ==
    LET hits == {j \in 1..Len(options) : options[j].mapper.short = <<key>>}
    IN  IF hits = {} THEN 0 ELSE CHOOSE j \in hits : \A k \in hits : j <= k

\* the first (name, mapper) of action.options whose mapper.long == key
LongIndex(options, key) ==
    LET hits == {j \in 1..Len(options) : options[j].mapper.long = key}
    IN  IF hits = {} THEN 0 ELSE CHOOSE j \in hits : \A k \in hits : j <= k

\* argvalue = mapper.type.__call__(raw); opts[name] = mapper.__call__(old, argvalue)
Saturate(name, mapper, raw, src, st, idx, used) ==
    LET argvalue == TypeCall(mapper.type, raw)
        call == [tok |-> idx, name |-> name, raw |-> raw, src |-> src]
        res == Option__call__(mapper, Get(st.opts, name), argvalue.val)
    IN  IF ~argvalue.ok
        THEN [opts |-> st.opts, unconsumed |-> st.unconsumed, calls |-> st.calls,
              used |-> FALSE, err |-> [kind |-> "ValueError", at |-> idx]]
        ELSE IF res.err # "ok"
        THEN [opts |-> st.opts, unconsumed |-> st.unconsumed,
              calls |-> Append(st.calls, call),
              used |-> FALSE, err |-> [kind |-> res.err, at |-> idx]]
        ELSE [opts |-> Put(st.opts, name, res.val), unconsumed |-> st.unconsumed,
              calls |-> Append(st.calls, call),
              used |-> used, err |-> NoError]

\* opts[name] = mapper.__call__(old, None)
Occur(name, mapper, st, idx) ==
    LET call == [tok |-> idx, name |-> name, raw |-> None, src |-> "none"]
        res == Option__call__(mapper, Get(st.opts, name), NoneV)
    IN  IF res.err # "ok"
        THEN [opts |-> st.opts, unconsumed |-> st.unconsumed,
              calls |-> Append(st.calls, call),
              used |-> FALSE, err |-> [kind |-> res.err, at |-> idx]]
        ELSE [opts |-> Put(st.opts, name, res.val), unconsumed |-> st.unconsumed,
              calls |-> Append(st.calls, call),
              used |-> FALSE, err |-> NoError]

Raise(st, kind, idx) ==
    [opts |-> st.opts, unconsumed |-> st.unconsumed, calls |-> st.calls,
     used |-> FALSE, err |-> [kind |-> kind, at |-> idx]]

\* unconsumed.append(arg); return False
Unconsumed(st, arg) ==
    [opts |-> st.opts, unconsumed |-> Append(st.unconsumed, arg),
     calls |-> st.calls, used |-> FALSE, err |-> NoError]

RECURSIVE _consume_short_option(_, _, _, _, _)
_consume_short_option(act, arg, next_arg, st, idx) ==
    LET key == arg[2]
        remains == From(arg, 2)
        j == ShortIndex(act.options, key)
        name == act.options[j].name
        mapper == act.options[j].mapper
    IN  IF j = 0 THEN Unconsumed(st, arg)
        ELSE IF mapper.type # "None"
        THEN IF remains # <<>>
             THEN Saturate(name, mapper, remains, "attached", st, idx, FALSE)
             ELSE IF next_arg # None
             THEN Saturate(name, mapper, next_arg, "next", st, idx, TRUE)
             ELSE Raise(st, "MissingArgument", idx)
        ELSE IF remains # <<>>
        THEN LET one == Occur(name, mapper, st, idx)
             IN  IF one.err.kind # "ok" THEN one
                 ELSE _consume_short_option(
                        act, <<"-">> \o remains, next_arg,
                        [opts |-> one.opts, unconsumed |-> one.unconsumed,
                         calls |-> one.calls], idx)
        ELSE Occur(name, mapper, st, idx)

\* a split at the last `=` instead of the first
SplitMutLastEquals(arg) ==
    LET eqs == {i \in 1..Len(arg) : arg[i] = "="}
        e == CHOOSE i \in eqs : \A k \in eqs : k <= i
    IN  IF eqs = {} THEN [key |-> arg, value |-> <<>>]
        ELSE [key |-> Upto(arg, e - 1), value |-> <<From(arg, e)>>]

\* key, *value = arg.split('=', 1)
split_eq(arg) ==
    LET eqs == {i \in 1..Len(arg) : arg[i] = "="}
        e == CHOOSE i \in eqs : \A k \in eqs : i <= k
    IN  IF eqs = {} THEN [key |-> arg, value |-> <<>>]
        ELSE [key |-> Upto(arg, e - 1), value |-> <<From(arg, e)>>]

_consume_long_option(act, arg0, next_arg, st, idx) ==
    LET arg == From(arg0, 2)
        kv == split_eq(arg)
        j == LongIndex(act.options, kv.key)
        name == act.options[j].name
        mapper == act.options[j].mapper
    IN  IF j = 0 THEN Unconsumed(st, arg)
        ELSE IF mapper.type # "None"
        THEN IF kv.value # <<>>
             THEN Saturate(name, mapper, kv.value[1], "attached", st, idx, FALSE)
             ELSE IF next_arg # None
             THEN Saturate(name, mapper, next_arg, "next", st, idx, TRUE)
             ELSE Raise(st, "MissingArgument", idx)
        ELSE IF kv.value # <<>>
        THEN Raise(st, "UnexpectedValue", idx)
        ELSE Occur(name, mapper, st, idx)

\* a matcher that never finds `--`
DashDashMutNever(args) == Len(args)

\* argv.index('--'), or len(argv) when there is none (counted from zero)
dash_dash_index(args) ==
    LET hits == {i \in 1..Len(args) : args[i] = <<"-", "-">>}
    IN  IF hits = {} THEN Len(args)
        ELSE (CHOOSE i \in hits : \A k \in hits : i <= k) - 1

\* one turn of `for arg, next_arg in pairs`, then the turns after it
RECURSIVE ScanPairs(_, _, _, _)
ScanPairs(act, optargv, i, st) ==
    IF i > Len(optargv) THEN
        [opts |-> st.opts, unconsumed |-> st.unconsumed, calls |-> st.calls,
         err |-> NoError]
    ELSE
        LET arg == optargv[i]
            next_arg == IF i < Len(optargv) THEN optargv[i + 1] ELSE None
            r == IF _is_long_option(arg)
                 THEN _consume_long_option(act, arg, next_arg, st, i)
                 ELSE IF _is_option(arg)
                 THEN _consume_short_option(act, arg, next_arg, st, i)
                 ELSE [opts |-> st.opts, unconsumed |-> st.unconsumed,
                       calls |-> st.calls, used |-> FALSE, err |-> NoError]
            lookahead == next_arg # None /\ ~_is_option(next_arg) /\ ~r.used
        IN  IF r.err.kind # "ok"
            THEN [opts |-> r.opts, unconsumed |-> r.unconsumed,
                  calls |-> r.calls, err |-> r.err]
            ELSE ScanPairs(act, optargv, i + 1,
                    [opts |-> r.opts,
                     unconsumed |-> IF lookahead
                                    THEN Append(r.unconsumed, next_arg)
                                    ELSE r.unconsumed,
                     calls |-> r.calls])

\* a matcher that forgets the first token when it is not an option
ParseMutFirstForgotten(act, args) ==
    LET d == dash_dash_index(args)
        r == ScanPairs(act, Upto(args, d), 1,
                [opts |-> <<>>, unconsumed |-> <<>>, calls |-> <<>>])
    IN  [options |-> r.opts,
         unconsumed |-> r.unconsumed,
         positionals |-> r.unconsumed \o From(args, d),
         calls |-> r.calls,
         err |-> r.err]

\* _parse_options(action, argv): (options, positionals), or the error raised.
\* `unconsumed` and `calls` are kept beside the result for inspection.
_parse_options(act, args) ==
    LET d == dash_dash_index(args)
        optargv == Upto(args, d)
        positional_only == From(args, d)
        first == IF Len(optargv) > 0 /\ ~_is_option(optargv[1])
                 THEN <<optargv[1]>> ELSE <<>>
        r == ScanPairs(act, optargv, 1,
                [opts |-> <<>>, unconsumed |-> first, calls |-> <<>>])
    IN  [options |-> r.opts,
         unconsumed |-> r.unconsumed,
         positionals |-> r.unconsumed \o positional_only,
         calls |-> r.calls,
         err |-> r.err]

-----------------------------------------------------------------------------
(* Making a function into an action.                                       *)
(*                                                                         *)
(* A function is [name, args, kwonly, varargs, locals, annotations,        *)
(* defaults]: its positional parameters, its keyword-only parameters, the  *)
(* name of its *args parameter (None without one), its local variables,    *)
(* its annotations (a function from parameter names) and the set of        *)
(* parameters that have a default.  An annotation is [kind |-> ...]:       *)
(* "class" (an Option subclass, cls), "bool", "type" (int or str),         *)
(* "triple" (short, long, type), "instance" (opt) or "float" (2.7);        *)
(* [kind |-> "none"] stands for a parameter without annotation.            *)

\* code.co_varnames: parameters first, then *args, then the locals
co_varnames(function) ==
    function.args \o function.kwonly
        \o (IF function.varargs = None THEN <<>> ELSE <<function.varargs>>)
        \o function.locals

\* s[-n:] of Python: the last n elements, and all of s when n = 0
Last(s, n) == IF n = 0 THEN s ELSE SubSeq(s, Len(s) - n + 1, Len(s))

DefaultType(cls) == IF cls = "Key" THEN "str" ELSE "None"

_normalize_annotation(name, annotation) ==
    IF annotation.kind = "none"
    THEN Option__init__("Key", <<name[1]>>, name, "str")
    ELSE IF annotation.kind \in {"class", "bool", "type"}
    THEN LET long == replace(name, "_", "-")
             short == <<name[1]>>
         IN  IF annotation.kind = "class"
             THEN Option__init__(annotation.cls, short, long,
                                 DefaultType(annotation.cls))
             ELSE IF annotation.kind = "bool"
             THEN Option__init__("Flag", short, long, "None")
             ELSE Option__init__("Key", short, long, annotation.type)
    ELSE IF annotation.kind = "triple"
    THEN Option__init__("Key", annotation.short, annotation.long, annotation.type)
    ELSE IF annotation.kind = "instance"
    THEN [ok |-> TRUE, err |-> "ok", opt |-> annotation.opt]
    ELSE [ok |-> FALSE, err |-> "TypeError",
          opt |-> [cls |-> "Option", short |-> None, long |-> None, type |-> "None"]]

\* annotations.get(name), annotations.get(name, str)
Annotation(function, name) ==
    IF name \in DOMAIN function.annotations
    THEN function.annotations[name] ELSE [kind |-> "none"]

\* the mapper of a positional argument: its annotation, str without one
ArgMapper(function, name) ==
    LET a == Annotation(function, name)
    IN  IF a.kind = "none" THEN "str"
        ELSE IF a.kind = "type" THEN a.type
        ELSE IF a.kind = "bool" THEN "bool"
        ELSE a.kind

callable(annotation) ==
    annotation.kind \in {"none", "class", "bool", "type", "instance"}

_make_action(function) ==
    LET code_args == Upto(co_varnames(function), Len(function.args))
        kwargs == Last(co_varnames(function), Len(function.kwonly))
        made == [i \in 1..Len(kwargs) |->
                    _normalize_annotation(kwargs[i], Annotation(function, kwargs[i]))]
        bad == function.name[1] = "<"
               \/ (\E i \in 1..Len(code_args) :
                     ~callable(Annotation(function, code_args[i])))
               \/ (\E k \in 1..Len(kwargs) : ~made[k].ok)
    IN  [ok |-> ~bad,
         err |-> IF bad THEN "TypeError" ELSE "ok",
         action |->
            [function |-> function,
             options |-> [i \in 1..Len(kwargs) |->
                            [name |-> kwargs[i], mapper |-> made[i].opt]],
             arguments |-> [i \in 1..Len(code_args) |->
                            [name |-> code_args[i],
                             mapper |-> ArgMapper(function, code_args[i])]],
             is_variadic |->
                Len(co_varnames(function)) > Len(function.args)]]

-----------------------------------------------------------------------------
(* The positional binder, the call and action selection.                   *)

\* mapper.__call__(arg) for the mapper of a positional argument
ArgCall(mapper, raw) ==
    CASE mapper = "str" -> [ok |-> TRUE, val |-> StrV(raw)]
      [] mapper = "int" -> int_str(raw)
      [] mapper = "bool" -> [ok |-> TRUE, val |-> [bool |-> raw # <<>>]]

\* a binder that takes every token for a positional
NotOptionMutAll(s) == TRUE

\* not self._is_option(arg)
NotOption(s) == ~_is_option(s)

\* _parse_arguments(action, argv): (arguments, leftover), or the error raised
_parse_arguments(act, args) ==
    LET d == dash_dash_index(args)
        maybe_positionals == Upto(args, d)
        positional_only == From(args, d + 1)
        positionals == SelectSeq(maybe_positionals, NotOption) \o positional_only
        leftover == SelectSeq(maybe_positionals, _is_option)
                        \o From(positionals, Len(act.arguments))
        n == IF Len(positionals) < Len(act.arguments)
             THEN Len(positionals) ELSE Len(act.arguments)
        mapped == [i \in 1..n |-> ArgCall(act.arguments[i].mapper, positionals[i])]
        bad == \E i \in 1..n : ~mapped[i].ok
    IN  [arguments |-> [nm \in {act.arguments[i].name : i \in 1..n} |->
                          LET i == CHOOSE k \in 1..n : act.arguments[k].name = nm
                          IN  mapped[i].val],
         positionals |-> positionals,
         leftover |-> leftover,
         err |-> IF bad THEN "ValueError" ELSE "ok"]

\* call = {}; call.update(opts); call.update(args)
update(call, other) ==
    [n \in DOMAIN call \cup DOMAIN other |->
        IF n \in DOMAIN other THEN other[n] ELSE call[n]]

\* the raw strings of a list as values
StrVs(list) == [i \in 1..Len(list) |-> StrV(list[i])]

\* function(*args, **keywords) as Python binds it: positional values fill
\* the positional parameters in order, the excess goes to *args when there
\* is one, a keyword names a parameter not yet bound, and every parameter
\* without a default must be bound.  Every failure is a TypeError.
PyCall(function, pos, kw) ==
    LET np == IF Len(pos) < Len(function.args) THEN Len(pos) ELSE Len(function.args)
        by_position == {function.args[i] : i \in 1..np}
        params == {function.args[i] : i \in 1..Len(function.args)}
                    \cup {function.kwonly[i] : i \in 1..Len(function.kwonly)}
        too_many == Len(pos) > Len(function.args) /\ function.varargs = None
        unexpected == \E n \in DOMAIN kw : n \notin params
        multiple == \E n \in DOMAIN kw : n \in by_position
        given == by_position \cup DOMAIN kw
        missing == \E n \in params : n \notin given /\ n \notin function.defaults
    IN  IF too_many \/ unexpected \/ multiple \/ missing
        THEN [err |-> "TypeError", called |-> FALSE, params |-> <<>>, rest |-> <<>>]
        ELSE [err |-> "ok", called |-> TRUE,
              params |-> [n \in given |->
                            IF n \in by_position
                            THEN pos[CHOOSE i \in 1..np : function.args[i] = n]
                            ELSE kw[n]],
              rest |-> From(pos, np)]

Failed(kind) == [err |-> kind, called |-> FALSE, params |-> <<>>, rest |-> <<>>]

NotYet == [err |-> "pending", called |-> FALSE, params |-> <<>>, rest |-> <<>>]

\* not x.startswith('-')
NoDash(s) == s = <<>> \/ s[1] # "-"

\* list.remove(x): the list without the first element equal to x
remove(list, x) ==
    LET i == CHOOSE k \in 1..Len(list) :
                list[k] = x /\ \A m \in 1..(k - 1) : list[m] # x
    IN  Upto(list, i - 1) \o From(list, i)

NoAction == [none |-> TRUE]

\* a selection that looks at the first token only
SelectMutFirstToken(registry, default, args) ==
    IF args # <<>> /\ args[1] \in DOMAIN registry
    THEN [err |-> "ok", action |-> registry[args[1]], argv |-> Tail(args)]
    ELSE IF default # NoAction
    THEN [err |-> "ok", action |-> default, argv |-> args]
    ELSE [err |-> "NoActionSpecified", action |-> NoAction, argv |-> args]

\* the head of execute: the action chosen, the list as left behind, or the
\* error raised.  `registry` is self.actions, a function from names.
select(registry, default, args) ==
    LET positionals == SelectSeq(args, NoDash)
        first_positional == IF positionals = <<>> THEN None ELSE positionals[1]
    IN  IF first_positional \in DOMAIN registry
        THEN [err |-> "ok", action |-> registry[first_positional],
              argv |-> remove(args, first_positional)]
        ELSE IF default # NoAction
        THEN [err |-> "ok", action |-> default, argv |-> args]
        ELSE IF first_positional # None /\ Len(first_positional) > 0
        THEN [err |-> "NoSuchAction", action |-> NoAction, argv |-> args]
        ELSE [err |-> "NoActionSpecified", action |-> NoAction, argv |-> args]

\* if leftover and not action.is_variadic
too_many_arguments(leftover, act) == leftover # <<>> /\ ~act.is_variadic

-----------------------------------------------------------------------------
(* The operations.                                                         *)

Pipeline == <<argv, argv0, pc, action, parsed, bound, outcome>>

NoParse == [options |-> <<>>, unconsumed |-> <<>>, positionals |-> <<>>,
            calls |-> <<>>, err |-> NoError]

NoBinding == [arguments |-> <<>>, positionals |-> <<>>, leftover |-> <<>>,
              err |-> "ok"]

\* action(function): record the function under its name
Register(function) ==
    /\ pc = "idle"
    /\ _make_action(function).ok
    /\ actions' = update(actions, function.name :> _make_action(function).action)
    /\ UNCHANGED <<default_action, Pipeline>>

\* action.default(function): at most one default action
Default(function) ==
    /\ pc = "idle"
    /\ default_action = NoAction
    /\ _make_action(function).ok
    /\ default_action' = _make_action(function).action
    /\ UNCHANGED <<actions, Pipeline>>

\* execute(argv), up to the choice of the action
Execute ==
    /\ pc = "idle"
    /\ LET s == select(actions, default_action, argv)
       IN  /\ argv' = s.argv
           /\ action' = s.action
           /\ IF s.err = "ok"
              THEN pc' = "options" /\ outcome' = outcome
              ELSE pc' = "done" /\ outcome' = Failed(s.err)
    /\ UNCHANGED <<actions, default_action, argv0, parsed, bound>>

\* opts, positionals = self._parse_options(action, argv)
ParseOptions ==
    /\ pc = "options"
    /\ parsed' = _parse_options(action, argv)
    /\ IF parsed'.err.kind = "ok"
       THEN pc' = "arguments" /\ outcome' = outcome
       ELSE pc' = "done" /\ outcome' = Failed(parsed'.err.kind)
    /\ UNCHANGED <<actions, default_action, argv, argv0, action, bound>>

\* args, leftover = self._parse_arguments(action, positionals)
ParseArguments ==
    /\ pc = "arguments"
    /\ bound' = _parse_arguments(action, parsed.positionals)
    /\ IF bound'.err = "ok"
       THEN pc' = "call" /\ outcome' = outcome
       ELSE pc' = "done" /\ outcome' = Failed(bound'.err)
    /\ UNCHANGED <<actions, default_action, argv, argv0, action, parsed>>

\* the tail of execute: too many arguments, or action(*leftover, **args)
Dispatch ==
    /\ pc = "call"
    /\ pc' = "done"
    /\ outcome' =
          IF too_many_arguments(bound.leftover, action)
          THEN Failed("TooManyArguments")
          ELSE PyCall(action.function, StrVs(bound.leftover),
                      update(update(<<>>, parsed.options), bound.arguments))
    /\ UNCHANGED <<actions, default_action, argv, argv0, action, parsed, bound>>

-----------------------------------------------------------------------------
(* The functions registered and the tokens given, as the tests give them.  *)

N_verbose == <<"v", "e", "r", "b", "o", "s", "e">>
N_name == <<"n", "a", "m", "e">>
N_count == <<"c", "o", "u", "n", "t">>
N_vc == <<"v", "c">>

\* def vc(*, verbose: action.Count = 0, name=None, count: int = 0)
F_vc ==
    [name |-> N_vc, args |-> <<>>,
     kwonly |-> <<N_verbose, N_name, N_count>>,
     varargs |-> None, locals |-> <<>>,
     annotations |-> (N_verbose :> [kind |-> "class", cls |-> "Count"])
                     @@ (N_count :> [kind |-> "type", type |-> "int"]),
     defaults |-> {N_verbose, N_name, N_count}]

Dash(s) == <<"-">> \o s

\* tokens for the option matcher: plain words, `-`, `--`, short options
\* alone, clustered and with crammed values, long options with and without
\* `=value`, and options nobody declared
MatcherTokens ==
    { <<"x">>, <<"1">>, <<>>, <<"-">>, <<"-", "-">>,
      <<"-", "v">>, <<"-", "v", "v">>,
      <<"-", "n">>, <<"-", "n", "x">>, <<"-", "n", "v">>, <<"-", "v", "n">>,
      <<"-", "c">>, <<"-", "c", "1">>,
      <<"-", "t">>, <<"-", "v", "t">>, <<"-", "v", "-">>,
      Dash(Dash(N_verbose)), Dash(Dash(N_verbose)) \o <<"=", "x">>,
      Dash(Dash(N_name)), Dash(Dash(N_name)) \o <<"=", "-", "v", "=", "x">>,
      Dash(Dash(<<"n", "o">>)) }

\* every list of at most n tokens
RECURSIVE Lists(_, _)
Lists(tokens, n) ==
    IF n = 0 THEN {<<>>}
    ELSE LET shorter == Lists(tokens, n - 1)
         IN  shorter \cup {Append(l, t) : l \in {x \in shorter : Len(x) = n - 1},
                                           t \in tokens}

N_act == <<"a", "c", "t">>
N_one == <<"o", "n", "e">>
N_a == <<"a">>
N_rest == <<"r", "e", "s", "t">>

\* def act(a, *rest)
F_act ==
    [name |-> N_act, args |-> <<N_a>>, kwonly |-> <<>>, varargs |-> N_rest,
     locals |-> <<>>, annotations |-> <<>>, defaults |-> {}]

\* def one(a)
F_one ==
    [name |-> N_one, args |-> <<N_a>>, kwonly |-> <<>>, varargs |-> None,
     locals |-> <<>>, annotations |-> <<>>, defaults |-> {}]

N_opt == <<"o", "p", "t">>
N_yes == <<"y", "e", "s">>

\* def opt(a, *, yes: bool = False)
F_opt ==
    [name |-> N_opt, args |-> <<N_a>>, kwonly |-> <<N_yes>>, varargs |-> None,
     locals |-> <<>>, annotations |-> (N_yes :> [kind |-> "bool"]),
     defaults |-> {N_yes}]

Functions == {F_act, F_one, F_opt}

\* tokens for execute: action names, plain words, the empty string, an
\* undeclared option, `--`, and `-ay`
DispatchTokens ==
    { N_act, N_one, N_opt, <<"x">>, <<>>, <<"-", "t">>, <<"-", "-">>,
      <<"-", "a", "y">> }

-----------------------------------------------------------------------------
(* Spec: a fresh context, functions registered, then one execute.          *)

Init ==
    /\ actions = <<>>
    /\ default_action = NoAction
    /\ argv \in Lists(DispatchTokens, MaxArgs)
    /\ argv0 = argv
    /\ pc = "idle"
    /\ action = NoAction
    /\ parsed = NoParse
    /\ bound = NoBinding
    /\ outcome = NotYet

Next ==
    \/ \E f \in Functions : Register(f)
    \/ \E f \in Functions : Default(f)
    \/ Execute
    \/ ParseOptions
    \/ ParseArguments
    \/ Dispatch

Spec == Init /\ [][Next]_vars

(* SpecMatcher: vc is the default action and execute has selected it for   *)
(* a list of matcher tokens; the matcher, the binder and the call follow.  *)

InitMatcher ==
    /\ actions = <<>>
    /\ default_action = _make_action(F_vc).action
    /\ argv \in Lists(MatcherTokens, MaxArgs)
    /\ argv0 = argv
    /\ pc = "options"
    /\ action = default_action
    /\ parsed = NoParse
    /\ bound = NoBinding
    /\ outcome = NotYet

NextMatcher ==
    \/ ParseOptions
    \/ ParseArguments
    \/ Dispatch

SpecMatcher == InitMatcher /\ [][NextMatcher]_vars

(* SpecBinder: an action with two positionals, the first one an int, is    *)
(* the default action and execute has selected it.                         *)

N_two == <<"t", "w", "o">>
N_b == <<"b">>

\* def two(a: int, b, *, yes: bool = False)
F_two ==
    [name |-> N_two, args |-> <<N_a, N_b>>, kwonly |-> <<N_yes>>,
     varargs |-> None, locals |-> <<>>,
     annotations |-> (N_a :> [kind |-> "type", type |-> "int"])
                     @@ (N_yes :> [kind |-> "bool"]),
     defaults |-> {N_yes}]

\* tokens for the binder: plain words, a number, `-`, `--`, the flag of
\* two, and options nobody declared
BinderTokens ==
    { <<"x">>, <<"1">>, <<>>, <<"-">>, <<"-", "-">>, <<"-", "y">>,
      <<"-", "t">>, Dash(Dash(<<"n", "o">>)) }

InitBinder ==
    /\ actions = <<>>
    /\ default_action = _make_action(F_two).action
    /\ argv \in Lists(BinderTokens, MaxArgs)
    /\ argv0 = argv
    /\ pc = "options"
    /\ action = default_action
    /\ parsed = NoParse
    /\ bound = NoBinding
    /\ outcome = NotYet

SpecBinder == InitBinder /\ [][NextMatcher]_vars

(* SpecOptions: an option is constructed from the names given and, when    *)
(* the constructor returns, a function annotated with it is registered as  *)
(* `act`; then one execute.                                                *)

N_arg == <<"a", "r", "g">>

Classes == {"Option", "Flag", "Count", "Key"}

\* the names an option is constructed with: None, empty, one character,
\* more than one
ShortNames == {None, <<>>, <<"a">>, <<"a", "b">>}
LongNames == {None, <<>>, <<"c", "d">>}

\* def act(*, arg: cls(short, long) = None)
OptionFunction(cls, short, long) ==
    [name |-> N_act, args |-> <<>>, kwonly |-> <<N_arg>>, varargs |-> None,
     locals |-> <<>>,
     annotations |->
        (N_arg :> [kind |-> "instance",
                   opt |-> Option__init__(cls, short, long, DefaultType(cls)).opt,
                   given |-> [short |-> short, long |-> long]]),
     defaults |-> {N_arg}]

\* cls(short, long) in the annotation of act, then action(act)
Construct(cls, short, long) ==
    /\ pc = "idle"
    /\ actions = <<>>
    /\ IF Option__init__(cls, short, long, DefaultType(cls)).ok
       THEN /\ actions' = update(actions,
                    N_act :> _make_action(OptionFunction(cls, short, long)).action)
            /\ UNCHANGED <<default_action, Pipeline>>
       ELSE /\ pc' = "done"
            /\ outcome' = Failed("TypeError")
            /\ UNCHANGED <<actions, default_action, argv, argv0, action,
                           parsed, bound>>

\* tokens for an action with one option: its name, the forms the option
\* may have, and a plain word
OptionTokens ==
    { N_act, <<"x">>, <<"-", "a">>, Dash(Dash(<<"c", "d">>)),
      Dash(Dash(<<"a", "b">>)) }

InitOptions ==
    /\ actions = <<>>
    /\ default_action = NoAction
    /\ argv \in Lists(OptionTokens, MaxArgs)
    /\ argv0 = argv
    /\ pc = "idle"
    /\ action = NoAction
    /\ parsed = NoParse
    /\ bound = NoBinding
    /\ outcome = NotYet

NextOptions ==
    \/ \E cls \in Classes, short \in ShortNames, long \in LongNames :
            Construct(cls, short, long)
    \/ Execute
    \/ ParseOptions
    \/ ParseArguments
    \/ Dispatch

SpecOptions == InitOptions /\ [][NextOptions]_vars

-----------------------------------------------------------------------------
(* What the claims speak about, said over the tokens themselves.           *)

\* the matcher has run on argv
Scanned == pc \in {"arguments", "call"} \/ (pc = "done" /\ action # NoAction)

\* the matcher and the binder have both returned
Bound == pc = "call" \/ (pc = "done" /\ action # NoAction
                            /\ parsed.err.kind = "ok")

\* a token that starts with a dash and has something more in it
OptionLike(tok) == Len(tok) >= 2 /\ tok[1] = "-"

\* the number of tokens in front of the first `--`
Region(list) ==
    IF \E i \in 1..Len(list) : list[i] = <<"-", "-">>
    THEN (CHOOSE i \in 1..Len(list) :
            list[i] = <<"-", "-">> /\ \A k \in 1..(i - 1) : list[k] # <<"-", "-">>) - 1
    ELSE Len(list)

Declared(act) == {act.options[j] : j \in 1..Len(act.options)}

TakesValue(o) == o.mapper.type # "None"

\* what a short token `-k...` addresses: nothing declared ("unknown"), a
\* value-taking option with the text crammed after its key ("valued"), or
\* value-less options only ("flags"); `heads` counts the value-less
\* occurrences met on the way
RECURSIVE ShortTarget(_, _, _)
ShortTarget(act, chars, heads) ==
    LET os == {o \in Declared(act) : o.mapper.short = <<chars[1]>>}
        o == CHOOSE x \in os : TRUE
    IN  IF os = {} THEN [kind |-> "unknown", heads |-> heads]
        ELSE IF TakesValue(o)
        THEN [kind |-> "valued", name |-> o.name, attached |-> Tail(chars),
              type |-> o.mapper.type, heads |-> heads]
        ELSE IF Len(chars) = 1 THEN [kind |-> "flags", heads |-> Append(heads, o.name)]
        ELSE ShortTarget(act, Tail(chars), Append(heads, o.name))

\* the text of a long token: before the first `=`, and after it
LongKey(tok) ==
    LET body == SubSeq(tok, 3, Len(tok))
    IN  IF \E i \in 1..Len(body) : body[i] = "="
        THEN SubSeq(body, 1, (CHOOSE i \in 1..Len(body) :
                body[i] = "=" /\ \A k \in 1..(i - 1) : body[k] # "=") - 1)
        ELSE body

HasEquals(tok) == \E i \in 1..Len(tok) : tok[i] = "="

AfterFirstEquals(tok) ==
    LET e == CHOOSE i \in 1..Len(tok) :
                tok[i] = "=" /\ \A k \in 1..(i - 1) : tok[k] # "="
    IN  SubSeq(tok, e + 1, Len(tok))

IsLong(tok) == Len(tok) >= 3 /\ tok[1] = "-" /\ tok[2] = "-"

IsShort(tok) == OptionLike(tok) /\ ~IsLong(tok)

\* what an option-like token addresses, long or short
Target(act, tok) ==
    IF IsLong(tok)
    THEN LET os == {o \in Declared(act) : o.mapper.long = LongKey(tok)}
             o == CHOOSE x \in os : TRUE
         IN  IF os = {} THEN [kind |-> "unknown", heads |-> <<>>]
             ELSE IF TakesValue(o)
             THEN [kind |-> "valued", name |-> o.name,
                   attached |-> IF HasEquals(tok) THEN AfterFirstEquals(tok) ELSE <<>>,
                   has_attached |-> HasEquals(tok),
                   type |-> o.mapper.type, heads |-> <<>>]
             ELSE [kind |-> "flags", heads |-> <<o.name>>]
    ELSE LET t == ShortTarget(act, Tail(tok), <<>>)
         IN  IF t.kind = "valued"
             THEN [kind |-> "valued", name |-> t.name, attached |-> t.attached,
                   has_attached |-> t.attached # <<>>,
                   type |-> t.type, heads |-> t.heads]
             ELSE t

\* token i is a declared value-taking option with no value attached to it
Unsaturated(act, list, i) ==
    /\ OptionLike(list[i])
    /\ Target(act, list[i]).kind = "valued"
    /\ ~Target(act, list[i]).has_attached

CallsAt(i) == {k \in 1..Len(parsed.calls) : parsed.calls[k].tok = i}

\* no error was raised before the scan came to token i
CameTo(i) == parsed.err.kind = "ok" \/ parsed.err.at >= i

-----------------------------------------------------------------------------
(* The claims.                                                             *)

\* C1: a declared value-taking option without attached value that is the
\* last token of the option-scanning region, or that is followed by an
\* option-like token, makes the matcher fail with a missing-argument
\* error (so that nothing is bound), unless an earlier token already made
\* it fail.
C1_MissingValueFails ==
    Scanned =>
        \A i \in 1..Region(argv) :
            ( /\ Unsaturated(action, argv, i)
              /\ (i = Region(argv) \/ OptionLike(argv[i + 1]))
              /\ CameTo(i) )
            => parsed.err.kind = "MissingArgument"

IsCluster(tok, key) ==
    Len(tok) >= 2 /\ tok[1] = "-" /\ \A i \in 2..Len(tok) : tok[i] = key

RECURSIVE Occurrences(_, _)
Occurrences(list, key) ==
    IF list = <<>> THEN 0
    ELSE (IF IsCluster(list[1], key) THEN Len(list[1]) - 1 ELSE 0)
            + Occurrences(Tail(list), key)

RECURSIVE SplitClusters(_, _)
SplitClusters(list, key) ==
    IF list = <<>> THEN <<>>
    ELSE (IF IsCluster(list[1], key)
          THEN [i \in 1..(Len(list[1]) - 1) |-> <<"-", key>>]
          ELSE <<list[1]>>) \o SplitClusters(Tail(list), key)

\* C2: n occurrences of a Count option's short key bind the value n,
\* however they are split into tokens, and a list with clusters binds the
\* same options and leaves the same remainder as the list with every
\* cluster split into single `-v` tokens.
C2_CountEqualsOccurrences ==
    Scanned =>
        \A o \in Declared(action) :
            ( /\ o.mapper.cls = "Count" /\ ~TakesValue(o) /\ o.mapper.short # None
              /\ \A i \in 1..Len(argv) :
                    IsCluster(argv[i], o.mapper.short[1]) \/ ~OptionLike(argv[i])
              /\ Occurrences(argv, o.mapper.short[1]) >= 1 )
            => LET key == o.mapper.short[1]
                   split == _parse_options(action, SplitClusters(argv, key))
               IN  /\ parsed.err.kind = "ok"
                   /\ o.name \in DOMAIN parsed.options
                   /\ parsed.options[o.name] = IntV(Occurrences(argv, key))
                   /\ split.err.kind = "ok"
                   /\ split.options = parsed.options
                   /\ split.positionals = parsed.positionals

C2_Witness ==
    /\ Scanned
    /\ Len(argv) = 3
    /\ argv[1] = <<"-", "v", "v">> /\ argv[2] = <<"x">> /\ argv[3] = <<"-", "v">>
    /\ parsed.options[N_verbose] = IntV(3)
    /\ parsed.positionals = <<<<"x">>>>

Joined(list, i) ==
    SubSeq(list, 1, i - 1) \o <<list[i] \o list[i + 1]>>
        \o SubSeq(list, i + 2, Len(list))

\* C3: with VALUE not option-like (and not empty), the token `-cVALUE` and
\* the two tokens `-c`, `VALUE` in its place give the same bound options,
\* the same remainder and the same success or failure.
C3_CrammedEqualsSeparate ==
    Scanned =>
        \A i \in 1..(Region(argv) - 1) :
            ( /\ IsShort(argv[i]) /\ Len(argv[i]) = 2
              /\ Unsaturated(action, argv, i)
              /\ ~OptionLike(argv[i + 1]) /\ argv[i + 1] # <<>> )
            => LET joined == _parse_options(action, Joined(argv, i))
               IN  /\ joined.err.kind = parsed.err.kind
                   /\ parsed.err.kind = "ok" =>
                        /\ joined.options = parsed.options
                        /\ joined.positionals = parsed.positionals

\* C4: no token after the first `--` is matched against a declared option:
\* no mapper is called for it or with it, and each such token reaches the
\* positional binder verbatim.
C4_AfterDashDashVerbatim ==
    (Scanned /\ Region(argv) < Len(argv)) =>
        LET d == Region(argv) + 1
            tail == SubSeq(argv, d + 1, Len(argv))
        IN  /\ \A k \in 1..Len(parsed.calls) :
                  /\ parsed.calls[k].tok < d
                  /\ parsed.calls[k].src = "next" => parsed.calls[k].tok + 1 < d
            /\ parsed.err.kind = "ok" =>
                  /\ Len(parsed.positionals) >= Len(argv) - d + 1
                  /\ From(parsed.positionals,
                          Len(parsed.positionals) - (Len(argv) - d + 1))
                        = SubSeq(argv, d, Len(argv))
            /\ (Bound /\ pc = "done" /\ bound.err = "ok") =>
                  /\ Len(bound.positionals) >= Len(tail)
                  /\ From(bound.positionals, Len(bound.positionals) - Len(tail))
                        = tail

C4_Witness ==
    /\ pc = "done"
    /\ Len(argv) = 3
    /\ argv[1] = <<"-", "v">> /\ argv[2] = <<"-", "-">> /\ argv[3] = <<"-", "v", "v">>
    /\ parsed.options = (N_verbose :> IntV(1))
    /\ bound.positionals = <<<<"-", "v", "v">>>>

\* C5: an option-like token of the option-scanning region whose key no
\* option declares does not make the matcher fail, records no occurrence,
\* and is pushed unchanged to the remainder.
C5_UnknownOptionPassedRaw ==
    Scanned =>
        \A i \in 1..Region(argv) :
            (OptionLike(argv[i]) /\ Target(action, argv[i]).kind = "unknown"
                /\ Target(action, argv[i]).heads = <<>>)
            => /\ parsed.err.at # i
               /\ CallsAt(i) = {}
               /\ parsed.err.kind = "ok" =>
                     \E k \in 1..Len(parsed.unconsumed) :
                        parsed.unconsumed[k] = argv[i]

FirstWithoutDash(list) ==
    LET hits == {i \in 1..Len(list) : list[i] = <<>> \/ list[i][1] # "-"}
    IN  IF hits = {} THEN 0 ELSE CHOOSE i \in hits : \A k \in hits : i <= k

SelectionErrors == {"NoSuchAction", "NoActionSpecified"}

\* C6: with f the first token that does not start with `-`: a registered
\* name f selects that action and removes exactly that token; otherwise a
\* default action is selected with every token kept; otherwise execute
\* fails with `no such action` when f exists and is not empty, with `no
\* action specified` when there is no such token, and calls nothing.
C6_ActionSelection ==
    pc # "idle" =>
        LET i == FirstWithoutDash(argv0)
        IN  IF i > 0 /\ argv0[i] \in DOMAIN actions
            THEN /\ action = actions[argv0[i]]
                 /\ argv = SubSeq(argv0, 1, i - 1) \o SubSeq(argv0, i + 1, Len(argv0))
                 /\ outcome.err \notin SelectionErrors
            ELSE IF default_action # NoAction
            THEN /\ action = default_action
                 /\ argv = argv0
                 /\ outcome.err \notin SelectionErrors
            ELSE IF i > 0 /\ argv0[i] # <<>>
            THEN pc = "done" /\ outcome = Failed("NoSuchAction")
            ELSE IF i = 0
            THEN pc = "done" /\ outcome = Failed("NoActionSpecified")
            ELSE TRUE

C6_Witness ==
    /\ pc = "options"
    /\ argv0 = <<<<"-", "t">>, N_act, N_act>>
    /\ argv = <<<<"-", "t">>, N_act>>
    /\ N_act \in DOMAIN actions
    /\ action = actions[N_act]
    /\ default_action # NoAction

BoundValues ==
    [i \in 1..Cardinality(DOMAIN bound.arguments) |->
        bound.arguments[action.arguments[i].name]]

\* C7: after a successful parse the action is called with the bound
\* options as named parameters and, as ordered parameters, the bound
\* positional values in declaration order followed by the leftover tokens.
C7_CallOrderedParameters ==
    ( /\ pc = "done" /\ action # NoAction
      /\ parsed.err.kind = "ok" /\ bound.err = "ok"
      /\ outcome.err # "TooManyArguments" )
    => outcome = PyCall(action.function,
                        BoundValues \o StrVs(bound.leftover), parsed.options)

\* C8: an action whose function takes no *args, left with a non-empty
\* leftover (excess positional tokens or unrecognized options) after the
\* matcher and the binder, makes execute fail, and the action is not
\* called.
C8_TooManyArguments ==
    ( /\ pc = "done" /\ action # NoAction
      /\ parsed.err.kind = "ok" /\ bound.err = "ok"
      /\ action.function.varargs = None /\ bound.leftover # <<>> )
    => (~outcome.called /\ outcome.err # "ok")

KeyOccurrences(act, list, nm) ==
    {i \in 1..Region(list) :
        /\ OptionLike(list[i])
        /\ Target(act, list[i]).kind = "valued"
        /\ Target(act, list[i]).name = nm}

HasValue(act, list, i) ==
    \/ Target(act, list[i]).has_attached
    \/ i < Region(list) /\ ~OptionLike(list[i + 1])

Minimum(S) == CHOOSE i \in S : \A k \in S : i <= k

\* C9: a Key option that occurs twice or more, each time with a value,
\* makes parsing fail with the duplicate-key error, and the action is not
\* called.  Stated for the lists whose scan comes to the second occurrence
\* without an error from an earlier token.
C9_DuplicateKeyAlways ==
    Scanned =>
        \A o \in Declared(action) :
            LET occ == {i \in KeyOccurrences(action, argv, o.name) :
                            HasValue(action, argv, i)}
                second == Minimum(occ \ {Minimum(occ)})
            IN  (o.mapper.cls = "Key" /\ Cardinality(occ) >= 2 /\ CameTo(second))
                    => /\ parsed.err.kind = "DuplicateKey"
                       /\ ~outcome.called

InRemainder(tok) ==
    \E k \in 1..Len(parsed.unconsumed) : parsed.unconsumed[k] = tok

\* C10: a value attached to a declared value-taking option, the text after
\* the first `=` of a long option or the whole residue after the key of a
\* short one, is the raw value the option is given and, mapped, the value
\* bound; the following token is not consumed as a value.
C10_AttachedValueBound ==
    Scanned =>
        \A i \in 1..Region(argv) :
            ( /\ OptionLike(argv[i])
              /\ Target(action, argv[i]).kind = "valued"
              /\ Target(action, argv[i]).has_attached
              /\ CameTo(i) )
            => LET t == Target(action, argv[i])
               IN  /\ \A k \in CallsAt(i) :
                         parsed.calls[k].name = t.name =>
                            /\ parsed.calls[k].raw = t.attached
                            /\ parsed.calls[k].src = "attached"
                   /\ \/ \E k \in CallsAt(i) : parsed.calls[k].name = t.name
                      \/ /\ parsed.err = [kind |-> "ValueError", at |-> i]
                         /\ ~TypeCall(t.type, t.attached).ok
                   /\ parsed.err.kind = "ok" =>
                         /\ parsed.options[t.name] = TypeCall(t.type, t.attached).val
                         /\ (i < Region(argv) /\ ~OptionLike(argv[i + 1]))
                                => InRemainder(argv[i + 1])

C10_Witness ==
    /\ pc = "done"
    /\ argv = << Dash(Dash(N_name)) \o <<"=", "-", "v", "=", "x">>,
                 <<"x">>, <<"-", "c", "1">> >>
    /\ parsed.options = (N_name :> StrV(<<"-", "v", "=", "x">>))
                            @@ (N_count :> IntV(1))
    /\ parsed.positionals = <<<<"x">>>>

\* the binder has returned, with or without an error
BinderRan == Scanned /\ parsed.err.kind = "ok" /\ pc # "arguments"

\* how many times tok is in list
Times(list, tok) == Cardinality({i \in 1..Len(list) : list[i] = tok})

NotOptionLike(tok) == ~OptionLike(tok)

\* of a remainder: the tokens in front of `--` that are not option-like,
\* then every token after `--`
Bindable(list) ==
    SelectSeq(SubSeq(list, 1, Region(list)), NotOptionLike)
        \o SubSeq(list, Region(list) + 2, Len(list))

\* of a remainder: the option-like tokens in front of `--`
Skipped(list) == SelectSeq(SubSeq(list, 1, Region(list)), OptionLike)

\* C11: of the matcher's remainder, the k-th bindable token (not
\* option-like and before `--`, or after `--`) is bound through the k-th
\* declared positional mapper; option-like tokens before `--` and bindable
\* tokens beyond the declared count make up the leftover; fewer bindable
\* tokens than declared positionals bind a prefix and raise nothing.
C11_BinderBindsInOrder ==
    BinderRan =>
        LET able == Bindable(parsed.positionals)
            decl == action.arguments
            k == IF Len(able) < Len(decl) THEN Len(able) ELSE Len(decl)
            all == {parsed.positionals[i] : i \in 1..Len(parsed.positionals)}
        IN  /\ bound.err = "ok" <=>
                    \A i \in 1..k : ArgCall(decl[i].mapper, able[i]).ok
            /\ bound.err = "ok" =>
                    /\ DOMAIN bound.arguments = {decl[i].name : i \in 1..k}
                    /\ \A i \in 1..k :
                          bound.arguments[decl[i].name]
                            = ArgCall(decl[i].mapper, able[i]).val
            /\ Len(bound.leftover)
                    = Len(Skipped(parsed.positionals)) + Len(able) - k
            /\ \A t \in all :
                    Times(bound.leftover, t)
                        = Times(Skipped(parsed.positionals), t)
                            + Times(SubSeq(able, k + 1, Len(able)), t)

C11_Witness ==
    /\ pc = "call"
    /\ action.function = F_two
    /\ parsed.positionals = <<<<"-", "t">>, <<"-", "-">>, <<"1">>>>
    /\ bound.arguments = (N_a :> IntV(1))
    /\ bound.leftover = <<<<"-", "t">>>>

\* the options constructed and registered so far, each with the names it
\* was constructed from
Constructed ==
    {[opt |-> actions[n].options[i].mapper,
      given |-> actions[n].function.annotations[actions[n].options[i].name].given] :
        n \in {m \in DOMAIN actions :
                 \A i \in 1..Len(actions[m].options) :
                    LET a == actions[m].function.annotations
                    IN  /\ actions[m].options[i].name \in DOMAIN a
                        /\ a[actions[m].options[i].name].kind = "instance"},
        i \in 1..1}

\* C12: an option whose construction succeeds has its short or its long
\* form set, its short form, when set, is one character, and a single
\* name of more than one character is its long form.
C12_OptionNamesWellFormed ==
    \A c \in Constructed :
        /\ Truthy(c.opt.short) \/ Truthy(c.opt.long)
        /\ Truthy(c.opt.short) => Len(c.opt.short) = 1
        /\ (Truthy(c.given.short) /\ Len(c.given.short) > 1
                /\ ~Truthy(c.given.long))
            => (c.opt.long = c.given.short /\ ~Truthy(c.opt.short))

\* the actions made so far: the registered ones and the default one
Made ==
    {actions[n] : n \in DOMAIN actions}
        \cup (IF default_action = NoAction THEN {} ELSE {default_action})

\* C13: the positionals of a derived action are the positional parameters
\* of its function in declaration order, and its options are exactly the
\* keyword-only parameters of the function.
C13_DerivedFromSignature ==
    \A act \in Made :
        /\ [i \in 1..Len(act.arguments) |-> act.arguments[i].name]
                = act.function.args
        /\ {act.options[i].name : i \in 1..Len(act.options)}
                = {act.function.kwonly[i] : i \in 1..Len(act.function.kwonly)}

\* the calls that took token i as the value of the option in front of it
ValueCalls(i) ==
    {k \in 1..Len(parsed.calls) :
        parsed.calls[k].tok = i - 1 /\ parsed.calls[k].src = "next"}

\* no token of the list is `--` followed by tok (an unknown long option is
\* pushed to the remainder without its dashes, and would look like tok)
NoStrippedTwin(list, tok) ==
    \A k \in 1..Len(list) :
        ~(IsLong(list[k]) /\ SubSeq(list[k], 3, Len(list[k])) = tok)

\* C14: after a successful scan, a token of the option-scanning region
\* that is not option-like was taken once as the value of the value-taking
\* option right in front of it, or is once in the remainder, and not both:
\* the remainder holds a token string as many times as the region holds it
\* untaken.  The count leaves out strings that an unknown long option of
\* the list, stripped of its dashes, also puts there.
C14_PlainTokenOnce ==
    (Scanned /\ parsed.err.kind = "ok") =>
        \A i \in 1..Region(argv) :
            (~OptionLike(argv[i]) /\ NoStrippedTwin(argv, argv[i])) =>
                LET same == {k \in 1..Region(argv) : argv[k] = argv[i]}
                    taken == {k \in same : ValueCalls(k) # {}}
                IN  /\ \A k \in taken :
                          /\ Cardinality(ValueCalls(k)) = 1
                          /\ \A c \in ValueCalls(k) :
                                /\ parsed.calls[c].raw = argv[k]
                                /\ Target(action, argv[k - 1]).kind = "valued"
                    /\ Times(parsed.unconsumed, argv[i])
                            = Cardinality(same \ taken)

C14_Witness ==
    /\ Scanned
    /\ argv = <<<<"x">>, <<"-", "n">>, <<"x">>>>
    /\ parsed.options = (N_name :> StrV(<<"x">>))
    /\ parsed.unconsumed = <<<<"x">>>>

\* C15: a token taken as the value of a value-taking option is used as
\* that value only: no mapper is called on its account, and after a
\* successful scan it is not in the remainder (told by its string when no
\* other token of the list can have put that string there).
C15_ValueUsedOnlyAsValue ==
    Scanned =>
        \A i \in 2..Region(argv) :
            ValueCalls(i) # {} =>
                /\ CallsAt(i) = {}
                /\ ( /\ parsed.err.kind = "ok"
                     /\ \A k \in 1..Len(argv) : k # i => argv[k] # argv[i]
                     /\ NoStrippedTwin(argv, argv[i]) )
                   => Times(parsed.unconsumed, argv[i]) = 0

\* short is long with some elements left out
RECURSIVE SubList(_, _)
SubList(short, long) ==
    IF short = <<>> THEN TRUE
    ELSE IF long = <<>> THEN FALSE
    ELSE IF short[1] = long[1] THEN SubList(Tail(short), Tail(long))
    ELSE SubList(short, Tail(long))

\* C16: after a successful scan the remainder of the option scanning holds
\* token strings of the input only, in the order of the input: it is a
\* sub-list of the scanned tokens.
C16_RemainderIsSubList ==
    (Scanned /\ parsed.err.kind = "ok") =>
        SubList(parsed.unconsumed, SubSeq(argv, 1, Region(argv)))

\* C17: the leftover of the positional binder keeps its tokens in the
\* order they had in the binder's input: it is a sub-list of that input.
C17_LeftoverKeepsOrder ==
    (BinderRan /\ bound.err = "ok") =>
        SubList(bound.leftover, parsed.positionals)

\* C18: when execute has returned or raised, the caller's list holds the
\* tokens it was called with, in the same order, so that a second execute
\* with that list selects the same action with the same arguments.
C18_CallerListUnchanged ==
    pc = "done" =>
        /\ argv = argv0
        /\ select(actions, default_action, argv)
                = select(actions, default_action, argv0)

====
